---- MODULE Spec2Model ----
(***************************************************************************)
(* The hospital pipeline of gbosystems/data-scripts (download, normalize,  *)
(* reconcile against the existing dataset, live geocode, grouped write)    *)
(* together with the helpers of common.mjs it calls.                       *)
(* The batch geocoding loop of download-hospitals.mjs is modelled apart,   *)
(* on variables of its own.                                                *)
(*                                                                         *)
(* JavaScript values are encoded as follows: null and undefined are the    *)
(* records JsNull and JsUndefined, a property that is absent from a source *)
(* record is the token Missing, an object used as a map is a function on a *)
(* set of strings, an array is a sequence.                                 *)
(***************************************************************************)
EXTENDS Integers, Sequences, FiniteSets, TLC

\* Bounds of the model.
MaxRecords == 3    \* records held by the CMS endpoint
MaxPrior == 2      \* features of the prior all.geojson
MaxRequests == 3   \* page requests of one download (adversarial endpoint)
MaxCount == 3      \* largest count an adversarial endpoint reports

\* Program constants, scaled down (500 and 100 in the source).
downloadBatchSize == 2
geocodeRecordMax == 2

\* geocodeBatchSize of download-hospitals.mjs, scaled down (1000 in the source).
geocodeBatchSize == 2

JsNull == [type |-> "null"]
JsUndefined == [type |-> "undefined"]
Missing == "<undefined>"

Point(lng, lat) == [type |-> "Point", coordinates |-> <<lng, lat>>]

EmptyObject == <<>>

\* obj[key] of a JavaScript object used as a map
Get(obj, key) == IF key \in DOMAIN obj THEN obj[key] ELSE JsUndefined

\* a ?? b
Nullish(a, b) == IF a = JsNull \/ a = JsUndefined THEN b ELSE a

\* truthiness of a geometry-valued expression (an object is truthy)
Truthy(v) == v # JsNull /\ v # JsUndefined

\* typeof v === "string" for a property value
IsString(v) == v # Missing

\* `${v}` inside a template literal
Str(v) == IF v = Missing THEN "undefined" ELSE v

Min(a, b) == IF a <= b THEN a ELSE b

Range(s) == {s[i] : i \in 1..Len(s)}

----------------------------------------------------------------------------
(* Inputs: the records the CMS endpoint can hold, the features a prior     *)
(* all.geojson can hold, the override files, the geocoder.                 *)

Hospital(id, name, address, citytown, state, zip, es) ==
    [facility_id |-> id, facility_name |-> name, address |-> address,
     citytown |-> citytown, state |-> state, zip_code |-> zip,
     emergency_services |-> es]

\* A and B share one location; C's state differs from A's in letter case
\* only; D has no facility_name, no state and no emergency_services.
RecA == Hospital("A", "Alpha", "1 Main St", "X", "CA", "1", "Yes")
RecB == Hospital("B", "delta", "1 Main St", "X", "CA", "1", "No")
RecC == Hospital("C", "Charlie", "2 Oak Ave", "Z", "ca", "2", "yes")
RecD == Hospital("D", Missing, "3 Elm Rd", "W", Missing, "3", Missing)

AllRecords == <<RecA, RecB, RecC, RecD>>

G1 == Point(-1, 2)
G2 == Point(-3, 4)
G3 == Point(-5, 6)

Feature(id, props, geometry) ==
    [id |-> id, type |-> "Feature", properties |-> props, geometry |-> geometry]

\* Features of an earlier run: P and Q at the location of A and B with
\* different geometries, R at the location of C and unresolved.
PriorFeatures ==
    { Feature("P", Hospital("P", "Papa", "1 Main St", "X", "CA", "1", "Yes"), G1),
      Feature("Q", Hospital("Q", "Quebec", "1 Main St", "X", "CA", "1", "Yes"), G2),
      Feature("R", Hospital("R", "Romeo", "2 Oak Ave", "Z", "ca", "2", "No"), JsNull) }

OverrideObjects ==
    { EmptyObject,
      "A" :> G3,
      "A" :> JsNull,
      ("A" :> G3) @@ ("C" :> G1) }

\* Sequences without repetition over S of length at most n
RECURSIVE Arrangements(_, _)
Arrangements(S, n) ==
    IF n = 0 THEN {<<>>}
    ELSE LET shorter == Arrangements(S, n - 1)
         IN  shorter \cup
             {Append(s, x) : s \in {t \in shorter : Len(t) = n - 1}, x \in S}

NoRepeat(s) == \A i, j \in 1..Len(s) : i # j => s[i] # s[j]

\* Subsequences of AllRecords of length at most MaxRecords
RECURSIVE SubSeqsOf(_)
SubSeqsOf(s) ==
    IF s = <<>> THEN {<<>>}
    ELSE LET rest == SubSeqsOf(Tail(s))
         IN  rest \cup {<<Head(s)>> \o t : t \in rest}

Datasets == {s \in SubSeqsOf(AllRecords) : Len(s) <= MaxRecords}

File(state, content) == [state |-> state, content |-> content]
AbsentFile == File("absent", <<>>)
CorruptFile == File("corrupt", <<>>)

PriorFiles ==
    {AbsentFile, CorruptFile} \cup
    {File("ok", [type |-> "FeatureCollection", features |-> fs]) :
        fs \in {s \in Arrangements(PriorFeatures, MaxPrior) : NoRepeat(s)}}

OverrideFiles ==
    {AbsentFile, CorruptFile} \cup {File("ok", o) : o \in OverrideObjects}

----------------------------------------------------------------------------
(* Pure functions of the hospital script and of common.mjs.                *)

LowerCaseTable ==
    ("Alpha" :> "alpha") @@ ("Charlie" :> "charlie") @@ ("CA" :> "ca") @@
    ("Yes" :> "yes") @@ ("No" :> "no")

\* String.prototype.toLowerCase on the strings of the inputs
toLowerCase(s) == IF s \in DOMAIN LowerCaseTable THEN LowerCaseTable[s] ELSE s

\* The order of <= on the lowercased facility names of the inputs
Collation == <<"", "alpha", "charlie", "delta">>
StrLE(a, b) ==
    (CHOOSE i \in 1..Len(Collation) : Collation[i] = a) <=
    (CHOOSE i \in 1..Len(Collation) : Collation[i] = b)

getLocationString(record) ==
    Str(record.address) \o ", " \o Str(record.citytown) \o ", " \o
    Str(record.state) \o ", " \o Str(record.zip_code)

toGeoJsonFeature(record) == Feature(record.facility_id, record, JsNull)

\* The comparator execute passes to sort
CompareByName(a, b) ==
    LET aValue == IF a.properties.facility_name # Missing
                  THEN toLowerCase(a.properties.facility_name) ELSE ""
        bValue == IF b.properties.facility_name # Missing
                  THEN toLowerCase(b.properties.facility_name) ELSE ""
    IN  IF StrLE(aValue, bValue) THEN -1 ELSE 1

\* Array.prototype.sort under CompareByName (the inputs' names are distinct,
\* so every comparison sort yields this order)
RECURSIVE InsertByName(_, _)
InsertByName(sorted, x) ==
    IF sorted = <<>> THEN <<x>>
    ELSE IF CompareByName(x, Head(sorted)) < 0 THEN <<x>> \o sorted
    ELSE <<Head(sorted)>> \o InsertByName(Tail(sorted), x)

RECURSIVE SortByName(_)
SortByName(array) ==
    IF array = <<>> THEN <<>>
    ELSE InsertByName(SortByName(SubSeq(array, 1, Len(array) - 1)),
                      array[Len(array)])

Normalize(download) ==
    SortByName([i \in 1..Len(download) |-> toGeoJsonFeature(download[i])])

Resolved(value) == [threw |-> FALSE, value |-> value]
Rejected == [threw |-> TRUE, value |-> JsUndefined]

\* readObjectFromFile: rejects when readFile fails or JSON.parse throws
readObjectFromFile(file) ==
    IF file.state = "ok" THEN Resolved(file.content) ELSE Rejected

\* IndexLocations keyed by the feature's id instead of its location
RECURSIVE IndexLocationsById(_, _)
IndexLocationsById(features, locations) ==
    IF features = <<>> THEN locations
    ELSE LET feature == Head(features)
         IN  IndexLocationsById(Tail(features),
                IF feature.geometry = JsNull THEN locations
                ELSE (feature.id :> feature.geometry) @@ locations)

\* The loop of loadExistingDataset that fills locations
RECURSIVE IndexLocations(_, _)
IndexLocations(features, locations) ==
    IF features = <<>> THEN locations
    ELSE LET feature == Head(features)
             key == getLocationString(feature.properties)
         IN  IndexLocations(Tail(features),
                IF feature.geometry = JsNull THEN locations
                ELSE (key :> feature.geometry) @@ locations)

\* loadExistingDataset (the data field of its result is never read and is
\* left out)
loadExistingDataset(allF, overrideF) ==
    IF allF.state = "absent"
    THEN Resolved([locations |-> EmptyObject, override |-> EmptyObject])
    ELSE LET all == readObjectFromFile(allF)
             override == readObjectFromFile(overrideF)
         IN  IF all.threw \/ override.threw THEN Rejected
             ELSE Resolved([locations |-> IndexLocations(all.value.features, EmptyObject),
                            override |-> override.value])

\* ResolveGeometry with the two sources in the opposite order
ResolveGeometryIndexFirst(feature, ex) ==
    Nullish(Get(ex.locations, getLocationString(feature.properties)),
            Get(ex.override, feature.id))

\* const geometry = override[feature.id] ?? locations[key]
ResolveGeometry(feature, ex) ==
    Nullish(Get(ex.override, feature.id),
            Get(ex.locations, getLocationString(feature.properties)))

\* applyExistingLocationsToIncomingData looking at the override map only
applyOverridesOnly(features, ex) ==
    [i \in 1..Len(features) |->
        IF Truthy(Get(ex.override, features[i].id))
        THEN [features[i] EXCEPT !.geometry = Get(ex.override, features[i].id)]
        ELSE features[i]]

applyExistingLocationsToIncomingData(features, ex) ==
    [i \in 1..Len(features) |->
        LET geometry == ResolveGeometry(features[i], ex)
        IN  IF Truthy(geometry)
            THEN [features[i] EXCEPT !.geometry = geometry]
            ELSE features[i]]

\* groupBy of common.mjs; selector is a function on the items; the object
\* groupBy returns is the sequence of its entries in insertion order, which
\* is the order of for-in and Object.keys
groupBy(array, selector) ==
    LET step[i \in 0..Len(array)] ==
            IF i = 0 THEN <<>>
            ELSE LET result == step[i - 1]
                     item == array[i]
                     key == selector[item]
                 IN  IF \E j \in 1..Len(result) : result[j].key = key
                     THEN [j \in 1..Len(result) |->
                             IF result[j].key = key
                             THEN [result[j] EXCEPT !.items = Append(@, item)]
                             ELSE result[j]]
                     ELSE Append(result, [key |-> key, items |-> <<item>>])
    IN  step[Len(array)]

ObjectKeys(entries) == [j \in 1..Len(entries) |-> entries[j].key]

FeatureCollection(features) == [type |-> "FeatureCollection", features |-> features]

----------------------------------------------------------------------------
(* The HERE geocoder and geocodeSingle.                                    *)

\* The position the geocoder ranks first for a query
Position(query) ==
    CASE query = "1 Main St, X, CA, 1" -> [lat |-> 34, lng |-> -118]
      [] query = "2 Oak Ave, Z, ca, 2" -> [lat |-> 40, lng |-> -74]
      [] OTHER -> [lat |-> 30, lng |-> -97]

\* Bodies of a 200 response: candidates, no candidates, no items member
Found(query) ==
    [items |-> <<[position |-> Position(query)],
                 [position |-> [lat |-> 0, lng |-> 0]]>>]
NoCandidates == [items |-> <<>>]
NoItems == [title |-> "Unauthorized"]
Bodies(query) == {Found(query), NoCandidates, NoItems}

RateLimitBody == [error |-> "Too Many Requests", error_description |-> "rate limit"]

\* What one fetch of geocodeSingle can meet: a response with a status and a
\* body that parses, a response whose body does not parse, a rejected fetch
HttpOk(json) == [kind |-> "response", status |-> 200, json |-> json]
HttpRateLimit == [kind |-> "response", status |-> 429, json |-> RateLimitBody]
HttpUnparseable == [kind |-> "unparseable", status |-> 200, json |-> NoItems]
HttpNetworkError == [kind |-> "network", status |-> 0, json |-> NoItems]

\* geocodeSingle without the test of the status
geocodeSingleAnyStatus(response) ==
    IF response.kind # "response" THEN Rejected ELSE Resolved(response.json)

\* geocodeSingle, given what its fetch met
geocodeSingle(response) ==
    IF response.kind # "response" THEN Rejected
    ELSE IF response.status = 429 THEN Rejected
    ELSE Resolved(response.json)

\* The geometry geocodeIncomingData assigns for a returned body (JsNull
\* when it assigns none)
GeocodedGeometry(geocode) ==
    IF "items" \in DOMAIN geocode /\ Len(geocode.items) > 0
    THEN LET position == geocode.items[1].position
         IN  Point(position.lng, position.lat)
    ELSE JsNull

\* BudgetReached with the comparison off by one
BudgetReachedLate(n) == n > geocodeRecordMax

\* if (count >= geocodeRecordMax) break
BudgetReached(n) == n >= geocodeRecordMax

\* NextUnresolved without the test of feature.geometry
NextFeature(features, from) == IF from <= Len(features) THEN from ELSE 0

\* The next feature the for-of loop of geocodeIncomingData does not skip,
\* from index from on (0 when the loop runs off the end)
NextUnresolved(features, from) ==
    IF \E i \in from..Len(features) : features[i].geometry = JsNull
    THEN CHOOSE i \in from..Len(features) :
            /\ features[i].geometry = JsNull
            /\ \A j \in from..(i - 1) : features[j].geometry # JsNull
    ELSE 0

\* AfterGeocoded with wait(500) inside the branch that assigns a geometry:
\* a body without candidates takes the loop straight back to its head
AfterGeocodedWaitOnMatch(geocode, n) ==
    IF BudgetReached(n) THEN "writeAll"
    ELSE IF GeocodedGeometry(geocode) # JsNull THEN "wait"
    ELSE "geocode"

\* Where geocodeIncomingData goes once the if/else on geocode.items is done:
\* out of the loop when the budget is reached, to wait(500) otherwise
AfterGeocoded(geocode, n) ==
    IF BudgetReached(n) THEN "writeAll" ELSE "wait"

\* A catch that rethrows: the exception reaches the catch around execute
AfterGeocodeErrorRethrown == [pc |-> "done", exitCode |-> 1, error |-> "geocode"]

\* The catch of geocodeIncomingData logs and breaks: control goes on to the
\* statements after the loop and execute continues with the writes
AfterGeocodeError == [pc |-> "writeAll", exitCode |-> -1, error |-> "none"]

\* NextOffset for pages taken to be full
NextOffsetFullPage(off, results) == off + downloadBatchSize

\* offset += response.results.length
NextOffset(off, results) == off + Len(results)

\* while (records.length < total)
MorePages(recs, tot) == Len(recs) < tot

\* The page an endpoint that honours offset and limit returns
ServerPage(data, request) ==
    SubSeq(data, request.offset + 1,
           Min(Len(data), request.offset + request.limit))

GroupProperties == <<"state", "emergency_services">>

Geometries(features) == [i \in 1..Len(features) |-> features[i].geometry]

----------------------------------------------------------------------------
VARIABLES
    pc,            \* where execute stands
    exitCode,      \* -1 while the process runs, then its exit status
    error,         \* the stage whose exception reached the top-level catch
    run,           \* 1 for the first run, 2 for a re-run
    args,          \* the flags of the command line that execute tests
    allFile,       \* <existing>/all.geojson
    overrideFile,  \* <existing>/location-override.json
    source,        \* the records the CMS endpoint holds
    answers,       \* the body the geocoder returns for each query asked so far
    existing,      \* what loadExistingDataset returned
    offset, total, records,      \* locals of downloadHospitalList
    requests, pages, counts,     \* the page requests issued and the responses
    incoming,      \* the feature list
    count, cursor, \* locals of geocodeIncomingData
    calls,         \* the live geocode calls issued, in order
    timeline,      \* what geocodeIncomingData did so far: "call" for a fetch
                   \* issued, "settled" for a fetch that returned or threw,
                   \* "wait" for a wait(500) performed
    fault,         \* the geocode call that threw, if any
    afterLookup,   \* the geometries right after applyExistingLocationsToIncomingData
    by,            \* the groupBy results of execute
    dir, k,        \* the grouping property and the entry being written
    out,           \* the files under <path>
    prev,          \* the geometries the previous run wrote, by feature id, the
                   \* kind of its geocode failure and the override map it used
    data,          \* download-hospitals.mjs: the argument of geocodeHospitalList
    batchPc,       \* where geocodeHospitalList stands
    batchOffset, batchTotal,     \* its locals offset and total
    result, noMatch,             \* its locals result and noMatch
    submitted,     \* the address files posted to the batch geocoder, in order
    nomatchFile    \* ./nomatch.json

vars == <<pc, exitCode, error, run, args, allFile, overrideFile, source, answers,
          existing, offset, total, records, requests, pages, counts, incoming,
          count, cursor, calls, timeline, fault, afterLookup, by, dir, k, out,
          prev, data, batchPc, batchOffset, batchTotal, result, noMatch, submitted,
          nomatchFile>>

envVars == <<args, allFile, overrideFile, source>>
fetchVars == <<offset, total, records, requests, pages, counts>>
geocodeVars == <<count, cursor, calls, timeline, fault, answers>>
writeVars == <<by, dir, k, out>>
batchVars == <<data, batchPc, batchOffset, batchTotal, result, noMatch, submitted,
               nomatchFile>>

NoFault == [kind |-> "none", call |-> 0, geometries |-> <<>>]
EmptyOut ==
    [all |-> AbsentFile, state |-> EmptyObject, emergency_services |-> EmptyObject,
     metadata |-> AbsentFile]

NoPrevious == [geometry |-> EmptyObject, fault |-> "none", override |-> EmptyObject]

\* The state of a process that has just started
Fresh ==
    /\ pc = "load"
    /\ exitCode = -1
    /\ error = "none"
    /\ existing = [locations |-> EmptyObject, override |-> EmptyObject]
    /\ offset = 0
    /\ total = -1
    /\ records = <<>>
    /\ requests = <<>>
    /\ pages = <<>>
    /\ counts = <<>>
    /\ incoming = <<>>
    /\ count = 0
    /\ cursor = 1
    /\ calls = <<>>
    /\ timeline = <<>>
    /\ fault = NoFault
    /\ afterLookup = <<>>
    /\ by = [state |-> <<>>, emergency_services |-> <<>>]
    /\ dir = 1
    /\ k = 1
    /\ out = EmptyOut

\* geocodeHospitalList has not been called
BatchIdle ==
    /\ data = <<>>
    /\ batchPc = "idle"
    /\ batchOffset = 0
    /\ batchTotal = 0
    /\ result = EmptyObject
    /\ noMatch = <<>>
    /\ submitted = <<>>
    /\ nomatchFile = AbsentFile

Init ==
    /\ Fresh
    /\ BatchIdle
    /\ run = 1
    /\ prev = NoPrevious
    /\ answers = EmptyObject
    /\ args \in {[hereapikey |-> "KEY"], [hereapikey |-> Missing]}
    /\ allFile \in PriorFiles
    /\ overrideFile \in OverrideFiles
    /\ source \in Datasets

\* An exception that reaches the catch around execute: process.exit(1)
Crash(stage) ==
    /\ pc' = "done"
    /\ exitCode' = 1
    /\ error' = stage

----------------------------------------------------------------------------
(* execute of the hospital script, one action per stretch between awaits.  *)

\* const existing = await loadExistingDataset(args.existing)
LoadExisting ==
    /\ pc = "load"
    /\ LET loaded == loadExistingDataset(allFile, overrideFile)
       IN  IF loaded.threw
           THEN Crash("load") /\ UNCHANGED existing
           ELSE /\ pc' = "download"
                /\ existing' = loaded.value
                /\ UNCHANGED <<exitCode, error>>
    /\ UNCHANGED <<run, envVars, batchVars, fetchVars, incoming, geocodeVars, afterLookup,
                   writeVars, prev>>

\* downloadHospitalList: fetch(getDownloadUrl(offset, downloadBatchSize))
FetchRequest ==
    /\ pc = "download"
    /\ Len(requests) < MaxRequests
    /\ requests' = Append(requests, [offset |-> offset, limit |-> downloadBatchSize])
    /\ pc' = "awaitPage"
    /\ UNCHANGED <<exitCode, error, run, envVars, batchVars, existing, offset, total, records,
                   pages, counts, incoming, geocodeVars, afterLookup, writeVars, prev>>

\* downloadHospitalList: the rest of the loop body once the fetch settles
FetchResponse(response) ==
    /\ pc = "awaitPage"
    /\ IF response.kind = "reject" \/ "results" \notin DOMAIN response.json
       THEN Crash("download") /\ UNCHANGED <<offset, total, records, pages, counts>>
       ELSE /\ records' = records \o response.json.results
            /\ offset' = NextOffset(offset, response.json.results)
            /\ total' = response.json.count
            /\ pages' = Append(pages, response.json.results)
            /\ counts' = Append(counts, response.json.count)
            /\ pc' = IF MorePages(records', total') THEN "download" ELSE "normalize"
            /\ UNCHANGED <<exitCode, error>>
    /\ UNCHANGED <<run, envVars, batchVars, existing, requests, incoming, geocodeVars,
                   afterLookup, writeVars, prev>>

PageResponse(results, n) == [kind |-> "ok", json |-> [results |-> results, count |-> n]]
RejectedFetch == [kind |-> "reject", json |-> [count |-> 0]]

\* The CMS endpoint: the page asked for and the size of the dataset, or a
\* failed fetch
HonestResponses ==
    {PageResponse(ServerPage(source, requests[Len(requests)]), Len(source)),
     RejectedFetch}

\* let incoming = download.map(toGeoJsonFeature).sort(...)
NormalizeDownload ==
    /\ pc = "normalize"
    /\ incoming' = Normalize(records)
    /\ pc' = "reconcile"
    /\ UNCHANGED <<exitCode, error, run, envVars, batchVars, existing, fetchVars, geocodeVars,
                   afterLookup, writeVars, prev>>

\* incoming = applyExistingLocationsToIncomingData(incoming, existing), then
\* the test of args.hereapikey
Reconcile ==
    /\ pc = "reconcile"
    /\ incoming' = applyExistingLocationsToIncomingData(incoming, existing)
    /\ afterLookup' = Geometries(incoming')
    /\ pc' = IF IsString(args.hereapikey) THEN "geocode" ELSE "writeAll"
    /\ UNCHANGED <<exitCode, error, run, envVars, batchVars, existing, fetchVars, geocodeVars,
                   writeVars, prev>>

\* geocodeIncomingData: from the loop head to the fetch of geocodeSingle
GeocodeNext ==
    /\ pc = "geocode"
    /\ LET i == NextUnresolved(incoming, cursor)
       IN  IF i = 0
           THEN /\ pc' = "writeAll"
                /\ UNCHANGED <<count, cursor, calls, timeline>>
           ELSE /\ cursor' = i
                /\ count' = count + 1
                /\ calls' = Append(calls,
                       [index |-> i, id |-> incoming[i].id,
                        query |-> getLocationString(incoming[i].properties)])
                /\ timeline' = Append(timeline, "call")
                /\ pc' = "awaitGeocode"
    /\ UNCHANGED <<exitCode, error, run, envVars, batchVars, existing, fetchVars, incoming,
                   fault, answers, afterLookup, writeVars, prev>>

\* What the geocoder can answer to a query: the body it gave before for the
\* same query, any body for a new query, or a failure
GeocoderResponses(query) ==
    {HttpOk(body) : body \in (IF query \in DOMAIN answers
                              THEN {answers[query]} ELSE Bodies(query))}
    \cup {HttpRateLimit, HttpUnparseable, HttpNetworkError}

IsFailure(response) == response.kind # "response" \/ response.status = 429

\* geocodeIncomingData: from the return of geocodeSingle to wait(500)
GeocodeReturn(response) ==
    /\ pc = "awaitGeocode"
    /\ timeline' = Append(timeline, "settled")
    /\ answers' = IF IsFailure(response) THEN answers
                  ELSE (calls[Len(calls)].query :> response.json) @@ answers
    /\ fault' = IF IsFailure(response) /\ fault.kind = "none"
                THEN [kind |-> IF response.kind = "response" THEN "ratelimit" ELSE "other",
                      call |-> Len(calls), geometries |-> Geometries(incoming)]
                ELSE fault
    /\ LET geocode == geocodeSingle(response)
       IN  IF geocode.threw
           THEN /\ pc' = AfterGeocodeError.pc
                /\ exitCode' = AfterGeocodeError.exitCode
                /\ error' = AfterGeocodeError.error
                /\ UNCHANGED incoming
           ELSE /\ incoming' =
                      IF GeocodedGeometry(geocode.value) # JsNull
                      THEN [incoming EXCEPT ![cursor].geometry =
                                                GeocodedGeometry(geocode.value)]
                      ELSE incoming
                /\ pc' = AfterGeocoded(geocode.value, count)
                /\ UNCHANGED <<exitCode, error>>
    /\ UNCHANGED <<run, envVars, batchVars, existing, fetchVars, count, cursor, calls,
                   afterLookup, writeVars, prev>>

\* geocodeIncomingData: await wait(500), then the next feature
GeocodeWait ==
    /\ pc = "wait"
    /\ timeline' = Append(timeline, "wait")
    /\ pc' = "geocode"
    /\ cursor' = cursor + 1
    /\ UNCHANGED <<exitCode, error, run, envVars, batchVars, existing, fetchVars, incoming,
                   count, calls, fault, answers, afterLookup, writeVars, prev>>

\* groupBy(incoming.filter(s => typeof s.properties.P === "string"),
\*         s => s.properties.P)
GroupFeatures(features, property) ==
    LET filtered == SelectSeq(features, LAMBDA s : IsString(s.properties[property]))
    IN  groupBy(filtered, [s \in Range(filtered) |-> s.properties[property]])

\* `${key.toLowerCase()}.geojson`
GroupFileName(key) == toLowerCase(key) \o ".geojson"

\* writeObjectToFile(all.geojson), then the first groupBy
WriteAll ==
    /\ pc = "writeAll"
    /\ out' = [out EXCEPT !.all = File("ok", FeatureCollection(incoming))]
    /\ by' = [by EXCEPT ![GroupProperties[1]] = GroupFeatures(incoming, GroupProperties[1])]
    /\ dir' = 1
    /\ k' = 1
    /\ pc' = "writeGroups"
    /\ UNCHANGED <<exitCode, error, run, envVars, batchVars, existing, fetchVars, incoming,
                   geocodeVars, afterLookup, prev>>

\* One iteration of a for (let key in by...) loop
WriteGroupFile ==
    /\ pc = "writeGroups"
    /\ k <= Len(by[GroupProperties[dir]])
    /\ LET property == GroupProperties[dir]
           entry == by[property][k]
       IN  out' = [out EXCEPT ![property] =
                      (GroupFileName(entry.key) :> FeatureCollection(entry.items)) @@ @]
    /\ k' = k + 1
    /\ UNCHANGED <<pc, exitCode, error, run, envVars, batchVars, existing, fetchVars, incoming,
                   geocodeVars, afterLookup, by, dir, prev>>

\* The end of one for-in loop and the groupBy before the next
NextGroup ==
    /\ pc = "writeGroups"
    /\ k > Len(by[GroupProperties[dir]])
    /\ dir < Len(GroupProperties)
    /\ dir' = dir + 1
    /\ by' = [by EXCEPT ![GroupProperties[dir + 1]] =
                 GroupFeatures(incoming, GroupProperties[dir + 1])]
    /\ k' = 1
    /\ UNCHANGED <<pc, exitCode, error, run, envVars, batchVars, existing, fetchVars, incoming,
                   geocodeVars, afterLookup, out, prev>>

\* writeObjectToFile(metadata.json) (the updated timestamp is left out), then
\* process.exit(0)
WriteMetadata ==
    /\ pc = "writeGroups"
    /\ k > Len(by[GroupProperties[dir]])
    /\ dir = Len(GroupProperties)
    /\ out' = [out EXCEPT !.metadata = File("ok",
                 [source |-> "https://data.cms.gov/provider-data/dataset/xubh-q36u",
                  total |-> Len(incoming),
                  properties |-> [state |-> ObjectKeys(by.state),
                                  emergency_services |-> ObjectKeys(by.emergency_services)]])]
    /\ pc' = "done"
    /\ exitCode' = 0
    /\ UNCHANGED <<error, run, envVars, batchVars, existing, fetchVars, incoming, geocodeVars,
                   afterLookup, by, dir, k, prev>>

Next ==
    \/ LoadExisting
    \/ FetchRequest
    \/ pc = "awaitPage" /\ \E response \in HonestResponses : FetchResponse(response)
    \/ NormalizeDownload
    \/ Reconcile
    \/ GeocodeNext
    \/ pc = "awaitGeocode" /\ \E response \in GeocoderResponses(calls[Len(calls)].query) :
            GeocodeReturn(response)
    \/ GeocodeWait
    \/ WriteAll
    \/ WriteGroupFile
    \/ NextGroup
    \/ WriteMetadata

Spec == Init /\ [][Next]_vars

\* The script is run again: --existing names the directory the finished run
\* wrote (with the same location-override.json beside all.geojson), --path
\* an empty directory; the flags, the endpoint and the geocoder are the same
Restart ==
    /\ pc = "done"
    /\ exitCode = 0
    /\ run = 1
    /\ run' = 2
    /\ allFile' = out.all
    /\ prev' = [geometry |-> [id \in {incoming[i].id : i \in 1..Len(incoming)} |->
                                incoming[CHOOSE i \in 1..Len(incoming) : incoming[i].id = id].geometry],
                fault |-> fault.kind,
                override |-> existing.override]
    /\ pc' = "load"
    /\ exitCode' = -1
    /\ existing' = [locations |-> EmptyObject, override |-> EmptyObject]
    /\ offset' = 0
    /\ total' = -1
    /\ records' = <<>>
    /\ requests' = <<>>
    /\ pages' = <<>>
    /\ counts' = <<>>
    /\ incoming' = <<>>
    /\ count' = 0
    /\ cursor' = 1
    /\ calls' = <<>>
    /\ timeline' = <<>>
    /\ fault' = NoFault
    /\ afterLookup' = <<>>
    /\ by' = [state |-> <<>>, emergency_services |-> <<>>]
    /\ dir' = 1
    /\ k' = 1
    /\ out' = EmptyOut
    /\ UNCHANGED <<error, args, overrideFile, source, answers, batchVars>>

NextRerun == Next \/ Restart

SpecRerun == Init /\ [][NextRerun]_vars

\* An endpoint that may return any part of the page asked for, report any
\* count, answer without a results member, or fail
AdversarialResponses ==
    LET page == ServerPage(source, requests[Len(requests)])
    IN  {PageResponse(SubSeq(page, 1, n), c) : n \in 0..Len(page), c \in 0..MaxCount}
        \cup {RejectedFetch, [kind |-> "ok", json |-> [count |-> 0]]}

\* The download against such an endpoint, with no existing dataset
InitFetch ==
    /\ Fresh
    /\ BatchIdle
    /\ run = 1
    /\ prev = NoPrevious
    /\ answers = EmptyObject
    /\ args = [hereapikey |-> "KEY"]
    /\ allFile = AbsentFile
    /\ overrideFile = AbsentFile
    /\ source = AllRecords

NextFetch ==
    \/ LoadExisting
    \/ FetchRequest
    \/ pc = "awaitPage" /\ \E response \in AdversarialResponses : FetchResponse(response)

SpecFetch == InitFetch /\ [][NextFetch]_vars

----------------------------------------------------------------------------
(* geocodeHospitalList of download-hospitals.mjs and the census batch      *)
(* geocoder. Coordinates are integers: the geocoder gives them in units of *)
(* 1e-7 degree, result holds them in units of 1e-6 degree.                 *)

\* Array.prototype.slice(start, end) for 0 <= start and 0 <= end: the
\* elements of 0-based index start up to, not including, end
Slice(array, start, end) == SubSeq(array, start + 1, Min(end, Len(array)))

\* getRowForHospitalGeocode
getRowForHospitalGeocode(record) ==
    <<record.facility_id, record.address, record.citytown, record.state,
      record.zip_code>>

\* papaparse.unparse writes an undefined field as the empty string
CsvField(value) == IF value = Missing THEN "" ELSE value
Unparse(rows) ==
    [i \in 1..Len(rows) |-> [c \in 1..Len(rows[i]) |-> CsvField(rows[i][c])]]

\* data.slice(offset, geocodeBatchSize).map(getRowForHospitalGeocode), then
\* papaparse.unparse
BatchAsCsv(array, off) ==
    LET sliced == Slice(array, off, geocodeBatchSize)
    IN  Unparse([i \in 1..Len(sliced) |-> getRowForHospitalGeocode(sliced[i])])

\* parseFloat(parseFloat(x).toFixed(accuracy)), accuracy = 6: the nearest
\* multiple of 1e-6, the larger one of two equally near
ToFixed(x) == (x + 5) \div 10

\* The coordinates the batch geocoder holds for an address row
CensusCoords(row) ==
    CASE row[1] = "A" -> <<-1182436715, 340522349>>
      [] row[1] = "B" -> <<-1182436715, 340522349>>
      [] row[1] = "C" -> <<-740059725, 407127755>>
      [] OTHER -> <<-977430604, 302672001>>

\* The rows of a parsed response: id, address, "Match", match type, matched
\* address, "lon,lat" for a match; id, address, "No_Match" otherwise
MatchRow(row) == <<row[1], row[2], "Match", "Exact", row[2], CensusCoords(row)>>
NoMatchRow(row) == <<row[1], row[2], "No_Match">>

\* What the batch geocoder can answer to an address file: one row per
\* address, matched or not; a single line of text that is no such row (the
\* only answer to an empty file); or the fetch is rejected
CensusResponses(csv) ==
    {[kind |-> "ok", rows |-> rows] :
        rows \in IF csv = <<>> THEN {<<>>}
                 ELSE {r \in [1..Len(csv) -> {MatchRow(csv[i]) : i \in 1..Len(csv)}
                                         \cup {NoMatchRow(csv[i]) : i \in 1..Len(csv)}] :
                          \A i \in 1..Len(csv) : r[i][1] = csv[i][1]}}
    \cup {[kind |-> "ok", rows |-> <<<<"Invalid request">>>>],
          [kind |-> "reject", rows |-> <<>>]}

\* The for loop over responseAsArray: result after the rows
RECURSIVE MatchesInto(_, _)
MatchesInto(res, rows) ==
    IF rows = <<>> THEN res
    ELSE LET record == Head(rows)
         IN  MatchesInto(
                 IF Len(record) >= 3 /\ record[3] = "Match"
                 THEN (record[1] :> Point(ToFixed(record[6][1]), ToFixed(record[6][2])))
                      @@ res
                 ELSE res,
                 Tail(rows))

\* The for loop over responseAsArray: the rows pushed to noMatch
Unmatched(rows) ==
    SelectSeq(rows, LAMBDA record : ~(Len(record) >= 3 /\ record[3] = "Match"))

\* while (offset < total)
MoreBatches(off, tot) == off < tot

hospitalVars == <<pc, exitCode, error, run, envVars, existing, fetchVars, incoming,
                  geocodeVars, afterLookup, writeVars, prev>>

\* geocodeHospitalList: from the head of the do loop to the POST
BatchSubmit ==
    /\ batchPc = "batch"
    /\ submitted' = Append(submitted, BatchAsCsv(data, batchOffset))
    /\ batchPc' = "awaitBatch"
    /\ UNCHANGED <<hospitalVars, data, batchOffset, batchTotal, result, noMatch,
                   nomatchFile>>

\* geocodeHospitalList: the rest of the loop body once the POST settles; a
\* rejected fetch is an exception that leaves the function
BatchResponse(response) ==
    /\ batchPc = "awaitBatch"
    /\ IF response.kind = "reject"
       THEN /\ batchPc' = "threw"
            /\ UNCHANGED <<result, noMatch, batchOffset>>
       ELSE /\ result' = MatchesInto(result, response.rows)
            /\ noMatch' = noMatch \o Unmatched(response.rows)
            /\ batchOffset' = batchOffset + geocodeBatchSize
            /\ batchPc' = IF MoreBatches(batchOffset', batchTotal)
                          THEN "batch" ELSE "writeNoMatch"
    /\ UNCHANGED <<hospitalVars, data, batchTotal, submitted, nomatchFile>>

\* await writeObjectToFile("./nomatch.json", noMatch); return result
BatchReturn ==
    /\ batchPc = "writeNoMatch"
    /\ nomatchFile' = File("ok", noMatch)
    /\ batchPc' = "returned"
    /\ UNCHANGED <<hospitalVars, data, batchOffset, batchTotal, result, noMatch,
                   submitted>>

\* geocodeHospitalList(data) is called with any downloaded list
InitBatch ==
    /\ Fresh
    /\ run = 1
    /\ prev = NoPrevious
    /\ answers = EmptyObject
    /\ args = [hereapikey |-> Missing]
    /\ allFile = AbsentFile
    /\ overrideFile = AbsentFile
    /\ source = <<>>
    /\ data \in Datasets
    /\ batchPc = "batch"
    /\ batchOffset = 0
    /\ batchTotal = Len(data)
    /\ result = EmptyObject
    /\ noMatch = <<>>
    /\ submitted = <<>>
    /\ nomatchFile = AbsentFile

NextBatch ==
    \/ BatchSubmit
    \/ batchPc = "awaitBatch" /\
          \E response \in CensusResponses(submitted[Len(submitted)]) :
              BatchResponse(response)
    \/ BatchReturn

SpecBatch == InitBatch /\ [][NextBatch]_vars

----------------------------------------------------------------------------
(* Properties.                                                             *)

\* applyExistingLocationsToIncomingData has run in this process
LookupDone == pc \in {"geocode", "awaitGeocode", "wait", "writeAll", "writeGroups"}
              \/ (pc = "done" /\ error = "none")

OverrideOf(feature) == Get(existing.override, feature.id)
IndexedOf(feature) == Get(existing.locations, getLocationString(feature.properties))

\* C1: once applyExistingLocationsToIncomingData has run, every feature
\* whose id has a geometry in the override map has exactly that geometry,
\* whatever the location index holds for its key; a feature that took a
\* different geometry from the index has no geometry in the override map.
C1_OverridePrecedence ==
    LookupDone =>
        \A i \in 1..Len(incoming) :
            /\ Truthy(OverrideOf(incoming[i])) =>
                  /\ afterLookup[i] = OverrideOf(incoming[i])
                  /\ incoming[i].geometry = OverrideOf(incoming[i])
            /\ ( /\ Truthy(IndexedOf(incoming[i]))
                 /\ afterLookup[i] = IndexedOf(incoming[i])
                 /\ IndexedOf(incoming[i]) # OverrideOf(incoming[i]) )
               => ~Truthy(OverrideOf(incoming[i]))

\* A finished run in which an overridden feature also matched an index
\* entry with another geometry
C1_Witness ==
    /\ pc = "done"
    /\ exitCode = 0
    /\ \E i \in 1..Len(incoming) :
          /\ Truthy(OverrideOf(incoming[i]))
          /\ Truthy(IndexedOf(incoming[i]))
          /\ IndexedOf(incoming[i]) # OverrideOf(incoming[i])
          /\ incoming[i].geometry = OverrideOf(incoming[i])

\* The features still unresolved after the override/index lookup, and
\* those among them a live call was issued for
UnresolvedAfterLookup == {i \in 1..Len(afterLookup) : afterLookup[i] = JsNull}
Attempted == {calls[j].index : j \in 1..Len(calls)}

\* C2: a run issues at most geocodeRecordMax live geocode calls, whatever
\* they return; when more features than that are unresolved after the
\* lookup, the ones never attempted (at least N - K of them) keep geometry
\* null, in the list and in the all.geojson written.
C2_BudgetEnforcement ==
    /\ Len(calls) <= geocodeRecordMax
    /\ count = Len(calls)
    /\ (LookupDone /\ Cardinality(UnresolvedAfterLookup) > geocodeRecordMax) =>
          /\ Cardinality(UnresolvedAfterLookup \ Attempted) >=
                Cardinality(UnresolvedAfterLookup) - geocodeRecordMax
          /\ \A i \in UnresolvedAfterLookup \ Attempted :
                /\ incoming[i].geometry = JsNull
                /\ out.all.state = "ok" => out.all.content.features[i].geometry = JsNull

\* A finished run with more unresolved features than the budget, the budget
\* used up, one of the calls having returned no candidates
C2_Witness ==
    /\ pc = "done"
    /\ exitCode = 0
    /\ Cardinality(UnresolvedAfterLookup) > geocodeRecordMax
    /\ Len(calls) = geocodeRecordMax
    /\ \E j \in 1..Len(calls) : Get(answers, calls[j].query) = NoCandidates
    /\ \E j \in 1..Len(calls) : incoming[calls[j].index].geometry # JsNull
    /\ \E i \in UnresolvedAfterLookup \ Attempted :
          out.all.content.features[i].geometry = JsNull

\* The run went on after the geocoding loop and, once finished, has
\* written all.geojson, every per-group file and metadata.json and exited
\* with status 0
PipelineCompletes ==
    /\ pc \in {"writeAll", "writeGroups", "done"}
    /\ error = "none"
    /\ pc = "done" =>
          /\ exitCode = 0
          /\ out.all = File("ok", FeatureCollection(incoming))
          /\ out.metadata.state = "ok"
          /\ out.metadata.content.total = Len(incoming)
          /\ \A d \in 1..Len(GroupProperties) :
                LET entries == GroupFeatures(incoming, GroupProperties[d])
                IN  \A e \in 1..Len(entries) :
                       GroupFileName(entries[e].key) \in DOMAIN out[GroupProperties[d]]

\* Every geometry of the list is the one it had when call number
\* fault.call failed: what the lookup and the earlier calls assigned
ProgressKept ==
    /\ Geometries(incoming) = fault.geometries
    /\ \A i \in 1..Len(incoming) :
          afterLookup[i] # JsNull => incoming[i].geometry = afterLookup[i]
    /\ \A j \in 1..(fault.call - 1) :
          Get(answers, calls[j].query) = Found(calls[j].query) =>
             incoming[calls[j].index].geometry =
                Point(Position(calls[j].query).lng, Position(calls[j].query).lat)

\* C3: when the j-th live geocode call of a run is answered with status
\* 429, the geometries assigned by the lookup and by the j-1 earlier calls
\* are kept, no further call is issued, and the run goes on to write
\* all.geojson, the per-group files and metadata.json and exits with 0.
C3_RateLimitAbort ==
    fault.kind = "ratelimit" =>
        /\ ProgressKept
        /\ Len(calls) = fault.call
        /\ PipelineCompletes

\* A finished run whose second call was rate-limited after the first had
\* assigned a geometry and the lookup had resolved another feature
C3_Witness ==
    /\ pc = "done"
    /\ fault.kind = "ratelimit"
    /\ fault.call = 2
    /\ incoming[calls[1].index].geometry # JsNull
    /\ incoming[calls[2].index].geometry = JsNull
    /\ \E i \in 1..Len(incoming) : afterLookup[i] # JsNull
    /\ out.all.state = "ok"
    /\ out.metadata.state = "ok"

C5_LoaderToleratesMissingFiles ==
    pc # "load" =>
        /\ (allFile.state # "corrupt" /\ overrideFile.state # "corrupt") => error # "load"
        /\ error # "load" =>
              /\ allFile.state = "absent" => existing.locations = EmptyObject
              /\ overrideFile.state = "absent" => existing.override = EmptyObject
              /\ overrideFile.state = "ok" => existing.override = overrideFile.content

\* One step of a run keeps the list's length and every feature's id, and
\* changes a geometry only from null to a geometry
MonotoneStep ==
    (run' = run /\ incoming # <<>>) =>
        /\ Len(incoming') = Len(incoming)
        /\ \A i \in 1..Len(incoming) :
              /\ incoming'[i].id = incoming[i].id
              /\ incoming[i].geometry # JsNull =>
                    incoming'[i].geometry = incoming[i].geometry
              /\ incoming'[i].geometry # incoming[i].geometry =>
                    incoming'[i].geometry # JsNull

\* C6: throughout a run, a geometry that is non-null is never set back to
\* null nor replaced by another one (so each feature's geometry is assigned
\* at most once), and no feature's id changes.
C6_MonotoneResolution == [][MonotoneStep]_vars

\* A finished run in which the lookup resolved one feature and a live call
\* another
C6_Witness ==
    /\ pc = "done"
    /\ exitCode = 0
    /\ \E i \in 1..Len(incoming) : afterLookup[i] # JsNull
    /\ \E i \in 1..Len(incoming) :
          afterLookup[i] = JsNull /\ incoming[i].geometry # JsNull
    /\ out.all = File("ok", FeatureCollection(incoming))

SameLocation(a, b) ==
    /\ a.address = b.address
    /\ a.citytown = b.citytown
    /\ a.state = b.state
    /\ a.zip_code = b.zip_code

\* The resolved features of the prior all.geojson at the location of a
\* feature, by their position in the file
PriorMatches(feature) ==
    IF allFile.state # "ok" THEN {}
    ELSE {n \in 1..Len(allFile.content.features) :
            /\ allFile.content.features[n].geometry # JsNull
            /\ SameLocation(allFile.content.features[n].properties, feature.properties)}

LastOf(S) == CHOOSE n \in S : \A m \in S : m <= n

\* C7: a live geocode call is issued only for a feature whose geometry was
\* still null after the override/index lookup; a feature whose address,
\* citytown, state and zip_code equal those of a resolved feature of the
\* prior all.geojson causes no live call and, unless the override map has a
\* geometry for its id, has the geometry of that prior feature (of the last
\* one in the file when several share the location).
C7_NoUnnecessaryCalls ==
    /\ \A j \in 1..Len(calls) : afterLookup[calls[j].index] = JsNull
    /\ LookupDone =>
          \A i \in 1..Len(incoming) :
              PriorMatches(incoming[i]) # {} =>
                  /\ i \notin Attempted
                  /\ ~Truthy(OverrideOf(incoming[i])) =>
                        incoming[i].geometry =
                           allFile.content.features[LastOf(PriorMatches(incoming[i]))].geometry

\* A finished run in which a feature with a new id took the geometry of the
\* one prior feature at its location, while a live call was made for
\* another feature
C7_Witness ==
    /\ pc = "done"
    /\ exitCode = 0
    /\ Len(calls) > 0
    /\ \E i \in 1..Len(incoming) :
          /\ Cardinality(PriorMatches(incoming[i])) = 1
          /\ \A n \in PriorMatches(incoming[i]) :
                /\ allFile.content.features[n].id # incoming[i].id
                /\ allFile.content.features[n].geometry = incoming[i].geometry
          /\ i \notin Attempted

\* The places (file, position) at which a feature occurs in a directory
Occurrences(files, feature) ==
    {<<name, j>> \in UNION {{name} \X (1..Len(files[name].features)) : name \in DOMAIN files} :
        files[name].features[j] = feature}

\* C8 as stated: after a run, for every grouping property the files of its
\* directory hold exactly the features of all.geojson whose value for the
\* property is a string, each in one file and once, for any set of values.
C8_GroupingComplete ==
    (pc = "done" /\ exitCode = 0) =>
        \A d \in 1..Len(GroupProperties) :
            LET property == GroupProperties[d]
                files == out[property]
                all == out.all.content.features
            IN  /\ \A i \in 1..Len(all) :
                      IsString(all[i].properties[property]) =>
                          Cardinality(Occurrences(files, all[i])) = 1
                /\ \A name \in DOMAIN files :
                      \A j \in 1..Len(files[name].features) :
                          /\ files[name].features[j] \in Range(all)
                          /\ IsString(files[name].features[j].properties[property])

\* The number of records in the first n pages
RECURSIVE Collected(_)
Collected(n) == IF n = 0 THEN 0 ELSE Collected(n - 1) + Len(pages[n])

RECURSIVE Concat(_)
Concat(seqs) == IF seqs = <<>> THEN <<>> ELSE Head(seqs) \o Concat(Tail(seqs))

\* No response held more records than its count left to collect
NeverMoreThanRemain ==
    \A j \in 1..Len(pages) : Len(pages[j]) <= counts[j] - Collected(j - 1)

\* C9: downloadHospitalList has at most one page request outstanding; the
\* j-th request asks for downloadBatchSize records at the offset equal to
\* the number of records the earlier pages returned; a further request
\* follows a response exactly when the records collected are fewer than the
\* count that response reported; the result is the pages in order, and its
\* length is the last count reported when no response held more records
\* than remained.
C9_PaginatedFetch ==
    /\ Len(requests) - Len(pages) \in {0, 1}
    /\ Len(requests) - Len(pages) = 1 <=> (pc = "awaitPage" \/ error = "download")
    /\ \A j \in 1..Len(requests) :
          /\ requests[j].offset = Collected(j - 1)
          /\ requests[j].limit = downloadBatchSize
    /\ \A j \in 1..(Len(requests) - 1) : Collected(j) < counts[j]
    /\ (pc = "download" /\ pages # <<>>) => Len(records) < counts[Len(counts)]
    /\ records = Concat(pages)
    /\ offset = Len(records)
    /\ pc = "normalize" =>
          /\ Len(records) >= counts[Len(counts)]
          /\ total = counts[Len(counts)]
          /\ NeverMoreThanRemain => Len(records) = counts[Len(counts)]

\* A download that returned after three pages, the first shorter than the
\* page size and the first count differing from the last, with as many
\* records as last reported
C9_Witness ==
    /\ pc = "normalize"
    /\ Len(pages) = 3
    /\ Len(pages[1]) = 1
    /\ counts[1] # counts[3]
    /\ NeverMoreThanRemain
    /\ Len(records) = counts[3]
    /\ records = SubSeq(source, 1, 3)

\* Neither run met a failing geocode call
NoGeocodeFailure == prev.fault = "none" /\ fault.kind = "none"

\* C10 as stated: a re-run on the same records, with the previous run's
\* all.geojson as the existing dataset, the same override map and a geocoder
\* giving the same answers, assigns every feature the geometry the previous
\* run assigned it.
C10_RerunIdempotent ==
    ( /\ run = 2
      /\ pc = "done"
      /\ exitCode = 0
      /\ NoGeocodeFailure
      /\ prev.override = existing.override ) =>
        \A i \in 1..Len(incoming) :
            incoming[i].geometry = prev.geometry[incoming[i].id]

\* The resolved features of the previous run's all.geojson indexed under the
\* location key of a feature all have geometry g
AgreeAtLocation(feature, g) ==
    \A n \in 1..Len(allFile.content.features) :
        ( /\ allFile.content.features[n].geometry # JsNull
          /\ getLocationString(allFile.content.features[n].properties) =
                getLocationString(feature.properties) )
        => allFile.content.features[n].geometry = g

\* C10 amended: in a re-run that reaches the lookup, a feature the previous
\* run left with a geometry g is assigned g again by the lookup, with no
\* live call, when the override map the re-run loads holds g for its id, or
\* holds no geometry for its id and no resolved feature of the previous
\* all.geojson under its location key has a geometry other than g.  (A
\* feature the previous run left null may get a geometry in the re-run.)
C10_RerunKeepsResolved ==
    (run = 2 /\ LookupDone) =>
        \A i \in 1..Len(incoming) :
            LET g == prev.geometry[incoming[i].id]
            IN  ( /\ g # JsNull
                  /\ \/ OverrideOf(incoming[i]) = g
                     \/ /\ ~Truthy(OverrideOf(incoming[i]))
                        /\ AgreeAtLocation(incoming[i], g) )
                => /\ afterLookup[i] = g
                   /\ incoming[i].geometry = g
                   /\ i \notin Attempted

\* A finished re-run in which a feature geocoded by the previous run took
\* the same geometry from the index, and a feature the previous run left
\* null was resolved
C10_Witness ==
    /\ run = 2
    /\ pc = "done"
    /\ exitCode = 0
    /\ \E i \in 1..Len(incoming) :
          /\ ~Truthy(OverrideOf(incoming[i]))
          /\ prev.geometry[incoming[i].id] # JsNull
          /\ incoming[i].geometry = prev.geometry[incoming[i].id]
          /\ incoming[i].geometry =
                Point(Position(getLocationString(incoming[i].properties)).lng,
                      Position(getLocationString(incoming[i].properties)).lat)
    /\ \E i \in 1..Len(incoming) :
          prev.geometry[incoming[i].id] = JsNull /\ incoming[i].geometry # JsNull

----------------------------------------------------------------------------
\* The number of entries of the timeline, up to position p, that are event
EventsUpTo(p, event) == Cardinality({q \in 1..p : timeline[q] = event})

\* The live calls in flight after the first p entries of the timeline
InFlight(p) == EventsUpTo(p, "call") - EventsUpTo(p, "settled")

\* C11: in geocodeIncomingData at most one live geocode call is in flight
\* at any time, the calls are issued in the order of the feature list, and
\* between the completion of a live call and the start of the next live call
\* of the same run wait(500) is performed exactly once, whatever the earlier
\* call returned: every call but the first is immediately preceded by one
\* wait, itself immediately preceded by the completion of the earlier call.
C11_SequentialRateLimited ==
    /\ EventsUpTo(Len(timeline), "call") = Len(calls)
    /\ \A p \in 0..Len(timeline) : InFlight(p) \in {0, 1}
    /\ (pc = "awaitGeocode") = (InFlight(Len(timeline)) = 1)
    /\ \A a, b \in 1..Len(calls) : a < b => calls[a].index < calls[b].index
    /\ \A p \in 1..Len(timeline) :
          timeline[p] = "call" =>
              \/ p = 1
              \/ /\ p >= 3
                 /\ timeline[p - 1] = "wait"
                 /\ timeline[p - 2] = "settled"
    /\ \A p \in 1..Len(timeline) :
          timeline[p] = "wait" => p >= 2 /\ timeline[p - 1] = "settled"

\* A second live call is in flight, issued after one wait, and the first
\* call returned no candidates: its feature is still without a geometry
C11_Witness ==
    /\ pc = "awaitGeocode"
    /\ timeline = <<"call", "settled", "wait", "call">>
    /\ Len(calls) = 2
    /\ incoming[calls[1].index].geometry = JsNull
    /\ calls[1].id # calls[2].id

----------------------------------------------------------------------------
\* The address rows of the whole input, in order
AllRows(array) == Unparse([i \in 1..Len(array) |-> getRowForHospitalGeocode(array[i])])

\* C12: when geocodeHospitalList returns, every record of its input was
\* submitted to the batch geocoder in exactly one batch of at most
\* geocodeBatchSize records: the batches, one after the other, are the
\* input in order, with no record skipped or repeated, also when the input
\* holds more than geocodeBatchSize records.
C12_BatchCoverage ==
    batchPc = "returned" =>
        /\ Concat(submitted) = AllRows(data)
        /\ \A b \in 1..Len(submitted) : Len(submitted[b]) <= geocodeBatchSize

====
